---- MODULE Spec2Model ----
(***************************************************************************)
(* Model of the two command line tools of the repository:                  *)
(*   builds/pack_build.py       the build packager  (PackSpec)              *)
(*   scripts/inspect_build.py   the manifest inspector (InspectSpec)        *)
(* A path is a sequence of components; an absolute path starts with "/".   *)
(* The filesystem is a set of directories and a set of plain files, both   *)
(* sets of absolute paths, closed under "parent is a directory".           *)
(***************************************************************************)
EXTENDS Integers, Sequences, FiniteSets, TLC

\* ------------------------------------------------------------------ bounds
\* number of candidate entries of the addons directory of the packed build
NumAddons == 2

\* ------------------------------------------------------------ path algebra
None == "<null>"

\* entry names, in lexical order
Names == <<"a", "b", "c", "d">>

NameRank(s) == CHOOSE i \in 1..Len(Names) : Names[i] = s

Join(p, q) == p \o q

Parent(p) == SubSeq(p, 1, Len(p) - 1)

BaseName(p) == p[Len(p)]

IsPrefix(p, q) == Len(p) <= Len(q) /\ SubSeq(q, 1, Len(p)) = p

IsAbsolute(p) == Len(p) > 0 /\ p[1] = "/"

\* strictly below directory d
Under(p, d) == IsPrefix(d, p) /\ Len(p) > Len(d)

\* the build root after resolve(), the working directory
RefPath == <<"/", "build">>
Cwd == <<"/", "cwd">>
AddonsOf(r) == Join(r, <<"addons">>)
UserdataOf(r) == Join(r, <<"userdata">>)

\* sorted() of a set of sibling paths: ascending by name
RECURSIVE SortedPaths(_)
SortedPaths(S) ==
    IF S = {} THEN <<>>
    ELSE LET m == CHOOSE x \in S :
                    \A y \in S : NameRank(BaseName(x)) <= NameRank(BaseName(y))
         IN  <<m>> \o SortedPaths(S \ {m})

RelErr == <<"ValueError">>

\* Path.relative_to: the part of p after the prefix r, ValueError otherwise
RelativeTo(p, r) == IF IsPrefix(r, p) THEN SubSeq(p, Len(r) + 1, Len(p)) ELSE RelErr

\* ZipInfo.from_file strips the leading separators of the name it is given
RECURSIVE ZipArcname(_)
ZipArcname(p) == IF Len(p) > 0 /\ p[1] = "/" THEN ZipArcname(Tail(p)) ELSE p

\* ------------------------------------------------------- packager: inputs
\* content of one directory, relative to it
DirShapes ==
    { [dirs |-> {}, files |-> {}],
      [dirs |-> {}, files |-> {<<"f">>}],
      [dirs |-> {<<"sub">>}, files |-> {}],
      [dirs |-> {<<"sub">>}, files |-> {<<"f">>}],
      [dirs |-> {<<"sub">>}, files |-> {<<"sub", "g">>}],
      [dirs |-> {<<"sub">>}, files |-> {<<"f">>, <<"sub", "g">>}] }

Absent == [kind |-> "absent"]
PlainFile == [kind |-> "file"]
DirOf(sh) == [kind |-> "dir", shape |-> sh]

EntryShapes == {Absent, PlainFile} \cup { DirOf(sh) : sh \in DirShapes }
UserdataShapes == {Absent} \cup { DirOf(sh) : sh \in DirShapes }

TreeDirs(at, e) ==
    IF e.kind = "dir" THEN {at} \cup { Join(at, d) : d \in e.shape.dirs } ELSE {}
TreeFiles(at, e) ==
    IF e.kind = "file" THEN {at}
    ELSE IF e.kind = "dir" THEN { Join(at, f) : f \in e.shape.files } ELSE {}

AddonPath(i) == Join(AddonsOf(RefPath), <<Names[i]>>)

\* the filesystem of a build: root, addons directory, its entries, userdata
BuildDirs(rootOk, addonsOk, sh, ud) ==
    IF ~rootOk THEN {Cwd}
    ELSE {Cwd, RefPath}
         \cup TreeDirs(UserdataOf(RefPath), ud)
         \cup (IF addonsOk
               THEN {AddonsOf(RefPath)}
                    \cup UNION { TreeDirs(AddonPath(i), sh[i]) : i \in DOMAIN sh }
               ELSE {})
BuildFiles(rootOk, addonsOk, sh, ud) ==
    IF ~rootOk THEN {}
    ELSE TreeFiles(UserdataOf(RefPath), ud)
         \cup (IF addonsOk
               THEN UNION { TreeFiles(AddonPath(i), sh[i]) : i \in DOMAIN sh }
               ELSE {})

\* the values of the optional positional argument `out`, already resolved
OutArgs ==
    { None,
      Join(AddonPath(1), <<"out.zip">>),
      Join(UserdataOf(RefPath), <<"out.zip">>),
      <<"/", "nodir", "out.zip">> }

\* --------------------------------------------------------------- variables
VARIABLES
    fsDirs,     \* directories on disk
    fsFiles,    \* plain files on disk
    srcFiles,   \* the plain files on disk when the run started
    argOut,     \* args.out
    argIncl,    \* args.include_userdata
    ref,        \* main: ref
    out,        \* main: out
    todos,      \* main: todos
    ti,         \* position of the `for path in todos` loop
    stack,      \* os.walk: directories still to visit
    pending,    \* os.walk: files of the current directory still to write
    entries,    \* the names written to the archive, in order
    ppc,        \* position in main
    pOutcome,   \* "running", "ok", "nothing", "fserror", "valueerror"
    pExit,      \* process exit status
    pOut,       \* lines printed
    \* inspector
    xml,        \* content of each addon.xml on disk
    argGiven,   \* len(sys.argv) >= 2
    manifest,   \* main: manifest
    scan,       \* the entries of `for entry in sorted(addons_dir.iterdir())`
    si,         \* position of that loop
    mi,         \* position of `for a in manifest`
    iOut,       \* lines printed
    ipc,        \* position in the script
    iOutcome,   \* "running", "usage", "notdir", "ok", "typeerror"
    iExit       \* process exit status

pvars == <<srcFiles, argOut, argIncl, ref, out, todos, ti,
           stack, pending, entries, ppc, pOutcome, pExit, pOut>>

ivars == <<xml, argGiven, manifest, scan, si, mi, iOut, ipc, iOutcome, iExit>>

vars == <<fsDirs, fsFiles, pvars, ivars>>

\* ------------------------------------------------------ packager: helpers
IsDir(p) == p \in fsDirs

\* iterdir(): the immediate children of a directory
IterDir(d) == { p \in fsDirs \cup fsFiles : Len(p) = Len(d) + 1 /\ IsPrefix(d, p) }

\* mutant: the `if entry.is_dir()` filter of collect_addons is dropped
collect_addons_NoDirFilter(r) ==
    IF ~IsDir(AddonsOf(r)) THEN <<>>
    ELSE SortedPaths(IterDir(AddonsOf(r)))

collect_addons(r) ==
    IF ~IsDir(AddonsOf(r)) THEN <<>>
    ELSE SortedPaths({ e \in IterDir(AddonsOf(r)) : IsDir(e) })

\* mutant: collect_userdata returns the path without the is_dir() test
collect_userdata_NoCheck(r) == <<UserdataOf(r)>>

collect_userdata(r) ==
    IF IsDir(UserdataOf(r)) THEN <<UserdataOf(r)>> ELSE <<>>

ZipName(name) == name \o ".zip"

DefaultOut(r) == Join(Cwd, <<ZipName(BaseName(r))>>)

\* mutant: the file is written under its full path, relative_to(ref) is dropped
ArcNameOf_NoRelativeTo(full, r) == ZipArcname(full)

\* arcname = full.relative_to(ref); zipf.write(full, arcname)
ArcNameOf(full, r) == ZipArcname(RelativeTo(full, r))

Perms(S) ==
    { s \in [1..Cardinality(S) -> S] : \A i, j \in DOMAIN s : i # j => s[i] # s[j] }

\* the inspector does not run
InspectIdle ==
    /\ xml = <<>>
    /\ argGiven = FALSE
    /\ manifest = <<>>
    /\ scan = <<>>
    /\ si = 0
    /\ mi = 0
    /\ iOut = <<>>
    /\ ipc = "idle"
    /\ iOutcome = "idle"
    /\ iExit = None

\* ------------------------------------------------------ packager: actions
PackInit ==
    /\ \E rootOk \in BOOLEAN, addonsOk \in BOOLEAN,
          sh \in [1..NumAddons -> EntryShapes], ud \in UserdataShapes :
            /\ fsDirs = BuildDirs(rootOk, addonsOk, sh, ud)
            /\ fsFiles = BuildFiles(rootOk, addonsOk, sh, ud)
    /\ srcFiles = fsFiles
    /\ argOut \in OutArgs
    /\ argIncl \in BOOLEAN
    /\ ref = None
    /\ out = None
    /\ todos = <<>>
    /\ ti = 0
    /\ stack = <<>>
    /\ pending = {}
    /\ entries = <<>>
    /\ ppc = "start"
    /\ pOutcome = "running"
    /\ pExit = None
    /\ pOut = <<>>
    /\ InspectIdle

\* lines 58-62
Resolve ==
    /\ ppc = "start"
    /\ ref' = RefPath
    /\ out' = IF argOut # None THEN argOut ELSE DefaultOut(RefPath)
    /\ ppc' = "collect"
    /\ UNCHANGED ivars
    /\ UNCHANGED <<fsDirs, fsFiles, srcFiles, argOut, argIncl, todos, ti, stack,
                   pending, entries, pOutcome, pExit, pOut>>

\* lines 64-66
Collect ==
    /\ ppc = "collect"
    /\ todos' = collect_addons(ref)
                  \o (IF argIncl THEN collect_userdata(ref) ELSE <<>>)
    /\ ppc' = "check"
    /\ UNCHANGED ivars
    /\ UNCHANGED <<fsDirs, fsFiles, srcFiles, argOut, argIncl, ref, out, ti, stack,
                   pending, entries, pOutcome, pExit, pOut>>

\* lines 68-70
CheckTodos ==
    /\ ppc = "check"
    /\ IF todos = <<>>
       THEN /\ pOut' = Append(pOut, "no addons/userdata found, aborting")
            /\ pOutcome' = "nothing"
            /\ pExit' = 1
            /\ ppc' = "done"
       ELSE /\ ppc' = "open"
            /\ UNCHANGED <<pOut, pOutcome, pExit>>
    /\ UNCHANGED ivars
    /\ UNCHANGED <<fsDirs, fsFiles, srcFiles, argOut, argIncl, ref, out, todos, ti,
                   stack, pending, entries>>

\* line 72: ZipFile(out, "w") creates or truncates the file, or raises OSError
OpenZip ==
    /\ ppc = "open"
    /\ IF Parent(out) \notin fsDirs \/ out \in fsDirs
       THEN /\ pOutcome' = "fserror"
            /\ pExit' = 1
            /\ ppc' = "done"
            /\ UNCHANGED <<fsFiles, ti>>
       ELSE /\ fsFiles' = fsFiles \cup {out}
            /\ ti' = 1
            /\ ppc' = "item"
            /\ UNCHANGED <<pOutcome, pExit>>
    /\ UNCHANGED ivars
    /\ UNCHANGED <<fsDirs, srcFiles, argOut, argIncl, ref, out, todos, stack,
                   pending, entries, pOut>>

\* lines 73-75, 80-82: one iteration of `for path in todos` begins
StartItem ==
    /\ ppc = "item"
    /\ ti <= Len(todos)
    /\ IF IsDir(todos[ti])
       THEN /\ stack' = <<todos[ti]>>
            /\ ppc' = "walk"
            /\ UNCHANGED <<entries, ti, pOutcome, pExit>>
       ELSE IF RelativeTo(todos[ti], ref) = RelErr
       THEN /\ pOutcome' = "valueerror"
            /\ pExit' = 1
            /\ ppc' = "done"
            /\ UNCHANGED <<entries, ti, stack>>
       ELSE /\ entries' = Append(entries, ArcNameOf(todos[ti], ref))
            /\ ti' = ti + 1
            /\ UNCHANGED <<stack, ppc, pOutcome, pExit>>
    /\ UNCHANGED ivars
    /\ UNCHANGED <<fsDirs, fsFiles, srcFiles, argOut, argIncl, ref, out, todos,
                   pending, pOut>>

\* line 75: os.walk yields the next directory, top-down, in the order the OS
\* lists its subdirectories
WalkDir ==
    /\ ppc = "walk"
    /\ pending = {}
    /\ stack # <<>>
    /\ LET d == Head(stack)
           subdirs == { e \in IterDir(d) : IsDir(e) }
       IN  /\ pending' = { e \in IterDir(d) : ~IsDir(e) }
           /\ \E order \in Perms(subdirs) : stack' = order \o Tail(stack)
    /\ UNCHANGED ivars
    /\ UNCHANGED <<fsDirs, fsFiles, srcFiles, argOut, argIncl, ref, out, todos, ti,
                   entries, ppc, pOutcome, pExit, pOut>>

\* lines 76-79: the files of the directory, in the order the OS lists them
WriteFile ==
    /\ ppc = "walk"
    /\ \E full \in pending :
         /\ pending' = pending \ {full}
         /\ IF RelativeTo(full, ref) = RelErr
            THEN /\ pOutcome' = "valueerror"
                 /\ pExit' = 1
                 /\ ppc' = "done"
                 /\ UNCHANGED entries
            ELSE /\ entries' = Append(entries, ArcNameOf(full, ref))
                 /\ UNCHANGED <<ppc, pOutcome, pExit>>
    /\ UNCHANGED ivars
    /\ UNCHANGED <<fsDirs, fsFiles, srcFiles, argOut, argIncl, ref, out, todos, ti,
                   stack, pOut>>

\* line 73: os.walk is exhausted, the loop moves to the next item
NextItem ==
    /\ ppc = "walk"
    /\ pending = {}
    /\ stack = <<>>
    /\ ti' = ti + 1
    /\ ppc' = "item"
    /\ UNCHANGED ivars
    /\ UNCHANGED <<fsDirs, fsFiles, srcFiles, argOut, argIncl, ref, out, todos,
                   stack, pending, entries, pOutcome, pExit, pOut>>

\* line 83: the archive is closed and the summary printed
Finish ==
    /\ ppc = "item"
    /\ ti > Len(todos)
    /\ pOut' = Append(pOut, <<"created", out, "containing", Len(todos), "items">>)
    /\ pOutcome' = "ok"
    /\ pExit' = 0
    /\ ppc' = "done"
    /\ UNCHANGED ivars
    /\ UNCHANGED <<fsDirs, fsFiles, srcFiles, argOut, argIncl, ref, out, todos, ti,
                   stack, pending, entries>>

PackNext ==
    \/ Resolve
    \/ Collect
    \/ CheckTodos
    \/ OpenZip
    \/ StartItem
    \/ WalkDir
    \/ WriteFile
    \/ NextItem
    \/ Finish

PackSpec == PackInit /\ [][PackNext]_vars

\* ------------------------------------------------------ inspector: inputs
\* an attribute that the element does not carry
NoAttr == "<absent>"

\* dict.get(key) and dict.get(key, default) on an attribute dictionary
AttrGet(v) == IF v = NoAttr THEN None ELSE v
AttrGetDefault(v, default) == IF v = NoAttr THEN default ELSE v

Attrib(id, version, name, provider, type) ==
    [id |-> id, version |-> version, name |-> name, provider |-> provider, type |-> type]

Import(addon, version) == [addon |-> addon, version |-> version]

XmlDoc(attrib, hasRequires, imports) ==
    [kind |-> "xml", attrib |-> attrib, hasRequires |-> hasRequires, imports |-> imports]

\* the parseable manifests drawn as inputs
Docs ==
    { XmlDoc(Attrib(NoAttr, NoAttr, NoAttr, NoAttr, NoAttr), FALSE, <<>>),
      XmlDoc(Attrib("a", "1", "n", "p", "t"), TRUE, <<>>),
      XmlDoc(Attrib("", NoAttr, "n", NoAttr, NoAttr), FALSE, <<>>),
      XmlDoc(Attrib("b", "1", NoAttr, NoAttr, NoAttr), TRUE, <<Import("x", "2")>>),
      XmlDoc(Attrib("c", NoAttr, "n", NoAttr, "t"), TRUE,
             <<Import("x", NoAttr), Import("y", "")>>),
      XmlDoc(Attrib("b", "1", "n", "p", "t"), TRUE, <<Import(NoAttr, "2")>>),
      XmlDoc(Attrib("a", NoAttr, NoAttr, NoAttr, NoAttr), TRUE,
             <<Import("x", "2"), Import(NoAttr, NoAttr)>>) }

NoManifest == [kind |-> "none"]
Malformed == [kind |-> "malformed"]

Manifests == {NoManifest, Malformed} \cup Docs

\* an entry of the addons directory of the inspected build
AddonChoices ==
    { [tree |-> Absent, manifest |-> NoManifest],
      [tree |-> PlainFile, manifest |-> NoManifest] }
    \cup { [tree |-> DirOf([dirs |-> {},
                            files |-> IF m = NoManifest THEN {} ELSE {<<"addon.xml">>}]),
            manifest |-> m] : m \in Manifests }

UdSlots == {1, 2}

\* the userdata directory: missing, or holding plain files and directories
UserdataChoices ==
    { [present |-> FALSE, slot |-> [i \in UdSlots |-> Absent]] }
    \cup { [present |-> TRUE, slot |-> f] :
             f \in [UdSlots -> {Absent, PlainFile, DirOf([dirs |-> {}, files |-> {}])}] }

UdPath(i) == Join(UserdataOf(RefPath), <<Names[i]>>)

ManifestPath(d) == Join(d, <<"addon.xml">>)

InspectDirs(rootOk, addonsOk, ch, ud) ==
    IF ~rootOk THEN {Cwd}
    ELSE {Cwd, RefPath}
         \cup (IF ud.present
               THEN {UserdataOf(RefPath)}
                    \cup UNION { TreeDirs(UdPath(i), ud.slot[i]) : i \in UdSlots }
               ELSE {})
         \cup (IF addonsOk
               THEN {AddonsOf(RefPath)}
                    \cup UNION { TreeDirs(AddonPath(i), ch[i].tree) : i \in DOMAIN ch }
               ELSE {})

InspectFiles(rootOk, addonsOk, ch, ud) ==
    IF ~rootOk THEN {}
    ELSE (IF ud.present
          THEN UNION { TreeFiles(UdPath(i), ud.slot[i]) : i \in UdSlots }
          ELSE {})
         \cup (IF addonsOk
               THEN UNION { TreeFiles(AddonPath(i), ch[i].tree) : i \in DOMAIN ch }
               ELSE {})

InspectXml(rootOk, addonsOk, ch) ==
    LET have == IF rootOk /\ addonsOk
                THEN { i \in DOMAIN ch : ch[i].tree.kind = "dir"
                                          /\ ch[i].manifest # NoManifest }
                ELSE {}
    IN  [ p \in { ManifestPath(AddonPath(i)) : i \in have } |->
            ch[CHOOSE i \in have : ManifestPath(AddonPath(i)) = p].manifest ]

\* ----------------------------------------------------- inspector: helpers
\* str() in an f-string
Fmt(v) == IF v = None THEN "None" ELSE v

RECURSIVE PathStr(_)
PathStr(p) ==
    IF p = <<>> THEN ""
    ELSE IF Len(p) = 1 THEN p[1]
    ELSE IF p[1] = "/" THEN "/" \o PathStr(Tail(p))
    ELSE p[1] \o "/" \o PathStr(Tail(p))

Line(k, text, tag) == [k |-> k, text |-> text, tag |-> tag]

\* parse_addon: what it returns and what it prints
parse_addon(addon_dir) ==
    LET xml_path == ManifestPath(addon_dir) IN
    IF xml_path \notin fsFiles
    THEN [ok |-> FALSE, info |-> <<>>, printed |-> <<>>]
    ELSE IF xml[xml_path].kind = "malformed"
    THEN [ok |-> FALSE, info |-> <<>>,
          printed |-> << Line("diag",
                              "failed to parse " \o PathStr(xml_path) \o ": ParseError",
                              PathStr(xml_path)) >>]
    ELSE LET root == xml[xml_path] IN
         [ok |-> TRUE,
          info |-> [id |-> AttrGet(root.attrib.id),
                    version |-> AttrGet(root.attrib.version),
                    name |-> AttrGet(root.attrib.name),
                    provider |-> AttrGet(root.attrib.provider),
                    type |-> AttrGetDefault(root.attrib.type, ""),
                    requires |-> IF root.hasRequires
                                 THEN [ i \in DOMAIN root.imports |->
                                          [addon |-> AttrGet(root.imports[i].addon),
                                           version |-> AttrGet(root.imports[i].version)] ]
                                 ELSE <<>>],
          printed |-> <<>>]

\* the order of str values that list.sort compares by
StrOrder == <<"", "a", "b", "c">>
StrRank(s) == CHOOSE i \in 1..Len(StrOrder) : StrOrder[i] = s

\* key=lambda x: x.get("id") or ""
SortKey(a) == IF a.id = None \/ a.id = "" THEN "" ELSE a.id

\* x goes behind the last element whose key is not greater: list.sort is stable
RECURSIVE InsertByKey(_, _)
InsertByKey(s, x) ==
    IF s = <<>> THEN <<x>>
    ELSE IF StrRank(SortKey(s[Len(s)])) <= StrRank(SortKey(x)) THEN Append(s, x)
    ELSE Append(InsertByKey(SubSeq(s, 1, Len(s) - 1), x), s[Len(s)])

RECURSIVE SortById(_)
SortById(s) ==
    IF s = <<>> THEN <<>>
    ELSE InsertByKey(SortById(SubSeq(s, 1, Len(s) - 1)), s[Len(s)])

\* r["addon"] + ("@" + r["version"] if r.get("version") else "")
DepRaises(r) == r.addon = None
DepText(r) ==
    r.addon \o (IF r.version # None /\ r.version # "" THEN "@" \o r.version ELSE "")

RECURSIVE JoinComma(_)
JoinComma(reqs) ==
    IF reqs = <<>> THEN ""
    ELSE IF Len(reqs) = 1 THEN DepText(reqs[1])
    ELSE DepText(reqs[1]) \o ", " \o JoinComma(Tail(reqs))

\* the packager does not run
PackIdle ==
    /\ srcFiles = {}
    /\ argOut = None
    /\ argIncl = FALSE
    /\ ref = None
    /\ out = None
    /\ todos = <<>>
    /\ ti = 0
    /\ stack = <<>>
    /\ pending = {}
    /\ entries = <<>>
    /\ ppc = "idle"
    /\ pOutcome = "idle"
    /\ pExit = None
    /\ pOut = <<>>

\* ----------------------------------------------------- inspector: actions
InspectInit ==
    /\ \E rootOk \in BOOLEAN, addonsOk \in BOOLEAN,
          ch \in [1..NumAddons -> AddonChoices], ud \in UserdataChoices :
            /\ fsDirs = InspectDirs(rootOk, addonsOk, ch, ud)
            /\ fsFiles = InspectFiles(rootOk, addonsOk, ch, ud)
            /\ xml = InspectXml(rootOk, addonsOk, ch)
    /\ argGiven \in BOOLEAN
    /\ manifest = <<>>
    /\ scan = <<>>
    /\ si = 0
    /\ mi = 0
    /\ iOut = <<>>
    /\ ipc = "start"
    /\ iOutcome = "running"
    /\ iExit = None
    /\ PackIdle

\* lines 87-91
Entry ==
    /\ ipc = "start"
    /\ IF ~argGiven
       THEN /\ iOut' = Append(iOut, Line("usage",
                                         "usage: inspect_build.py /path/to/reference", ""))
            /\ iOutcome' = "usage"
            /\ iExit' = 1
            /\ ipc' = "done"
       ELSE /\ ipc' = "main"
            /\ UNCHANGED <<iOut, iOutcome, iExit>>
    /\ UNCHANGED <<fsDirs, fsFiles, pvars, xml, argGiven, manifest, scan, si, mi>>

\* lines 54-62: main up to the start of the scan loop
MainBegin ==
    /\ ipc = "main"
    /\ IF ~IsDir(AddonsOf(RefPath))
       THEN /\ iOut' = Append(iOut, Line("notdir",
                                         PathStr(AddonsOf(RefPath)) \o " is not a directory",
                                         ""))
            /\ iOutcome' = "notdir"
            /\ iExit' = 0
            /\ ipc' = "done"
            /\ UNCHANGED <<scan, si>>
       ELSE /\ scan' = SortedPaths(IterDir(AddonsOf(RefPath)))
            /\ si' = 1
            /\ ipc' = "scan"
            /\ UNCHANGED <<iOut, iOutcome, iExit>>
    /\ UNCHANGED <<fsDirs, fsFiles, pvars, xml, argGiven, manifest, mi>>

\* lines 62-66: one iteration of the scan loop, parse_addon included
ScanEntry ==
    /\ ipc = "scan"
    /\ si <= Len(scan)
    /\ IF IsDir(scan[si])
       THEN LET r == parse_addon(scan[si]) IN
            /\ iOut' = iOut \o r.printed
            /\ manifest' = IF r.ok THEN Append(manifest, r.info) ELSE manifest
       ELSE UNCHANGED <<iOut, manifest>>
    /\ si' = si + 1
    /\ UNCHANGED <<fsDirs, fsFiles, pvars, xml, argGiven, scan, mi, ipc, iOutcome, iExit>>

\* lines 68-70: the scan is over, the manifest is sorted, the header printed
SortManifest ==
    /\ ipc = "scan"
    /\ si > Len(scan)
    /\ manifest' = SortById(manifest)
    /\ iOut' = Append(iOut, Line("header", "Detected addons:", ""))
    /\ mi' = 1
    /\ ipc' = "print"
    /\ UNCHANGED <<fsDirs, fsFiles, pvars, xml, argGiven, scan, si, iOutcome, iExit>>

\* lines 71-75: one iteration of `for a in manifest`; the addon line is
\* printed before the dependency text is built, which raises TypeError when
\* r["addon"] is None
PrintAddon ==
    /\ ipc = "print"
    /\ mi <= Len(manifest)
    /\ LET a == manifest[mi]
           line == Line("addon",
                        "- " \o Fmt(a.id) \o " " \o Fmt(a.version)
                             \o " (" \o Fmt(a.name) \o ")",
                        a.id)
       IN  IF a.requires = <<>>
           THEN /\ iOut' = Append(iOut, line)
                /\ mi' = mi + 1
                /\ UNCHANGED <<ipc, iOutcome, iExit>>
           ELSE IF \E i \in DOMAIN a.requires : DepRaises(a.requires[i])
           THEN /\ iOut' = Append(iOut, line)
                /\ iOutcome' = "typeerror"
                /\ iExit' = 1
                /\ ipc' = "done"
                /\ UNCHANGED mi
           ELSE /\ iOut' = iOut \o << line,
                                      Line("deps",
                                           "    depends on: " \o JoinComma(a.requires),
                                           "") >>
                /\ mi' = mi + 1
                /\ UNCHANGED <<ipc, iOutcome, iExit>>
    /\ UNCHANGED <<fsDirs, fsFiles, pvars, xml, argGiven, manifest, scan, si>>

\* lines 76-83 and the return to line 91: blank line, userdata section, exit
ListUserdata ==
    /\ ipc = "print"
    /\ mi > Len(manifest)
    /\ LET listing == SortedPaths(IterDir(UserdataOf(RefPath)))
       IN  iOut' = iOut \o << Line("blank", "", "") >>
                     \o (IF IsDir(UserdataOf(RefPath))
                         THEN << Line("udheader", "Userdata folders:", "") >>
                              \o [ i \in DOMAIN listing |->
                                     Line("ud", "- " \o BaseName(listing[i]),
                                          BaseName(listing[i])) ]
                         ELSE << Line("noud", "No userdata directory found", "") >>)
    /\ iOutcome' = "ok"
    /\ iExit' = 0
    /\ ipc' = "done"
    /\ UNCHANGED <<fsDirs, fsFiles, pvars, xml, argGiven, manifest, scan, si, mi>>

InspectNext ==
    \/ Entry
    \/ MainBegin
    \/ ScanEntry
    \/ SortManifest
    \/ PrintAddon
    \/ ListUserdata

InspectSpec == InspectInit /\ [][InspectNext]_vars

\* ------------------------------------------------------- packager: claims
EntrySet == { entries[i] : i \in DOMAIN entries }

\* a path with the build root prefix removed
Strip(f) == SubSeq(f, Len(RefPath) + 1, Len(f))

\* the files of a set F that lie under an immediate subdirectory of addons
UnderAddonDirs(F) ==
    { f \in F : IsPrefix(AddonsOf(RefPath), f) /\ Len(f) >= Len(RefPath) + 3 }

UnderUserdata(F) == { f \in F : Under(f, UserdataOf(RefPath)) }

\* what the archive of a build holding the files F is expected to list
ExpectedEntries(F) ==
    { Strip(f) : f \in UnderAddonDirs(F) }
    \cup (IF argIncl THEN { Strip(f) : f \in UnderUserdata(F) } ELSE {})

\* the collected item list is empty: no addons directory or no subdirectory
\* in it, and userdata not requested or absent
NoItems ==
    /\ \/ AddonsOf(RefPath) \notin fsDirs
       \/ ~\E d \in fsDirs : Parent(d) = AddonsOf(RefPath)
    /\ ~argIncl \/ UserdataOf(RefPath) \notin fsDirs

\* C1: when there is nothing to package, no file is ever created and no entry
\* written at any point of the run, and the run ends with exit status 1 on
\* the "nothing to package" outcome.
C1_NothingToPackage ==
    NoItems =>
        /\ fsFiles = srcFiles
        /\ entries = <<>>
        /\ ppc # "open"
        /\ ppc = "done" => (pExit = 1 /\ pOutcome = "nothing")

C1_Witness ==
    /\ ppc = "done"
    /\ NoItems
    /\ pOutcome = "nothing"
    /\ AddonsOf(RefPath) \in fsDirs
    /\ srcFiles # {}

\* C2: after a successful pack the entries are exactly the root-relative
\* paths of the files the build held under the subdirectories of addons,
\* plus those under userdata when requested; none missing, duplicated, added.
C2_EntrySetExact ==
    (ppc = "done" /\ pOutcome = "ok") =>
        /\ EntrySet = ExpectedEntries(srcFiles)
        /\ Len(entries) = Cardinality(EntrySet)

\* the entries are exactly the files on disk under the collected directories
\* while they are walked, the output archive included when it lies there
C2_ExactOverWalkedFiles ==
    (ppc = "done" /\ pOutcome = "ok") =>
        /\ EntrySet = ExpectedEntries(fsFiles)
        /\ Len(entries) = Cardinality(EntrySet)

C9_RelativeEntries ==
    \A i \in DOMAIN entries :
        LET e == entries[i] IN
        /\ e # <<>>
        /\ ~IsAbsolute(e)
        /\ Join(ref, e) \in fsFiles
        /\ \/ /\ Len(e) >= 3
              /\ e[1] = "addons"
              /\ \E k \in DOMAIN todos : todos[k] = Join(AddonsOf(ref), <<e[2]>>)
           \/ /\ Len(e) >= 2
              /\ e[1] = "userdata"
              /\ argIncl

C9_Witness ==
    /\ ppc = "done"
    /\ pOutcome = "ok"
    /\ \E i, j \in DOMAIN entries :
          /\ entries[i][1] = "addons" /\ Len(entries[i]) = 4
          /\ entries[j][1] = "userdata"

\* C10: the archive being written is never added as an entry of itself.
C10_NoSelfInclusion ==
    \A i \in DOMAIN entries : Join(ref, entries[i]) # out

\* ------------------------------------------------------ inspector: claims
LinesOf(k) == SelectSeq(iOut, LAMBDA l : l.k = k)

AddonDirs == { d \in fsDirs : Parent(d) = AddonsOf(RefPath) }

ValidDirs ==
    { d \in AddonDirs : ManifestPath(d) \in fsFiles /\ xml[ManifestPath(d)].kind = "xml" }

MalformedDirs ==
    { d \in AddonDirs :
        ManifestPath(d) \in fsFiles /\ xml[ManifestPath(d)].kind = "malformed" }

\* the addon line a parseable manifest is reported with
ReportLineOf(doc) ==
    "- " \o Fmt(AttrGet(doc.attrib.id)) \o " " \o Fmt(AttrGet(doc.attrib.version))
         \o " (" \o Fmt(AttrGet(doc.attrib.name)) \o ")"

\* the run was given a root with an addons directory and has ended
Reported == ipc = "done" /\ argGiven /\ AddonsOf(RefPath) \in fsDirs

ScanIsolated ==
    /\ Len(LinesOf("diag")) = Cardinality(MalformedDirs)
    /\ \A d \in MalformedDirs :
          \E i \in DOMAIN iOut :
              iOut[i].k = "diag" /\ iOut[i].tag = PathStr(ManifestPath(d))
    /\ \A d \in ValidDirs :
          \E i \in DOMAIN iOut :
              iOut[i].k = "addon" /\ iOut[i].text = ReportLineOf(xml[ManifestPath(d)])
    /\ Len(LinesOf("addon")) <= Cardinality(ValidDirs)

\* C3: with any mix of valid, malformed and missing manifests the run ends
\* with exit status 0, one diagnostic per malformed manifest naming its file,
\* every valid addon in the report and no line for the others.
C3_MalformedIsolated == Reported => (iExit = 0 /\ ScanIsolated)

\* the part of C3 that the code keeps: it holds of every run that does not
\* raise TypeError while printing
C3_UnlessTypeError == (Reported /\ iOutcome # "typeerror") => (iExit = 0 /\ ScanIsolated)

IdKey(tag) == IF tag = None THEN "" ELSE tag

AddonLinesSorted ==
    LET ls == LinesOf("addon") IN
    \A i, j \in DOMAIN ls : i < j => StrRank(IdKey(ls[i].tag)) <= StrRank(IdKey(ls[j].tag))

\* C4: the report holds exactly one addon line per valid manifest, in
\* non-decreasing order of id, a missing id counting as the empty string.
C4_CountAndOrder ==
    Reported => (Len(LinesOf("addon")) = Cardinality(ValidDirs) /\ AddonLinesSorted)

\* the part of C4 that the code keeps
C4_UnlessTypeError ==
    /\ AddonLinesSorted
    /\ (Reported /\ iOutcome # "typeerror") => Len(LinesOf("addon")) = Cardinality(ValidDirs)

\* C5: whichever attributes a parseable manifest lacks, the run never raises.
C5_NeverRaises == iOutcome # "typeerror"

UserdataSubdirs == { d \in fsDirs : Parent(d) = UserdataOf(RefPath) }

\* C7: in a completed report the userdata section lists exactly the immediate
\* subdirectories of userdata, in lexical order, and no plain file; without a
\* userdata directory it is the single "not found" message.
C7_UserdataListing ==
    (ipc = "done" /\ iOutcome = "ok") =>
        IF UserdataOf(RefPath) \in fsDirs
        THEN /\ Len(LinesOf("udheader")) = 1
             /\ LinesOf("noud") = <<>>
             /\ LET ls == LinesOf("ud")
                    want == SortedPaths(UserdataSubdirs)
                IN  /\ Len(ls) = Len(want)
                    /\ \A i \in DOMAIN ls : ls[i].tag = BaseName(want[i])
        ELSE /\ Len(LinesOf("noud")) = 1
             /\ LinesOf("ud") = <<>>
             /\ LinesOf("udheader") = <<>>

InvalidRootReported ==
    (ipc = "done" /\ argGiven /\ AddonsOf(RefPath) \notin fsDirs) =>
        /\ Len(iOut) = 1
        /\ iOut[1].k = "notdir"
        /\ iExit = 0

\* C8: a root without an addons directory is reported by one message, with no
\* addon line and no userdata section, and exit status 0; exit status 1
\* occurs only when the argument is missing.
C8_InvalidRoot ==
    /\ InvalidRootReported
    /\ (ipc = "done" /\ iExit = 1) => ~argGiven

\* the part of C8 that the code keeps
C8_UnlessTypeError ==
    /\ InvalidRootReported
    /\ (ipc = "done" /\ iExit = 1 /\ iOutcome # "typeerror") => ~argGiven
====
